---- MODULE Spec2Model ----
(***************************************************************************)
(* Model of the local vector store (lib/local_vector_db.py), of the search *)
(* layer on top of it (lib/search_api.py), of the text chunker             *)
(* (lib/text_chunker.py), of the embeddings pipeline                       *)
(* (embeddings_pipeline.py) and of the extraction scripts that feed it.    *)
(*                                                                         *)
(* Scores are floats in the source; here a score x is the integer 1000*x,  *)
(* so 0.7*v + 0.3*k is (7*v + 3*k) \div 10 on the integers.               *)
(* Positions of the FAISS index are 1-based here (0-based in the source).  *)
(* The file system is reliable: writes and unlinks do what they say.       *)
(***************************************************************************)
EXTENDS Integers, Sequences, FiniteSets, TLC

\* ------------------------------------------------------------------ bounds
MaxVectors == 2     \* cap on index.ntotal
MaxBatch == 2       \* longest batch handed to upsert_embeddings
MaxTopK == 2        \* largest top_k of a query
MaxResults == 2     \* longest result list handed to the merge and the post-processing
MaxTextLen == 6     \* longest text handed to chunk_text
MaxLoopLen == 5     \* longest text whose chunking loop is followed step by step
MaxChunks == 1      \* most chunks the source directory of a pipeline run yields
MaxExtractLen == 3  \* longest text an extraction returns, the error marker apart

\* ------------------------------------------------------------ input values
ChunkIds == {"a", "b"}

\* unit vectors of dimension 1 and 2 (the generator normalizes by default)
Vectors == { <<1>>, <<1, 0>>, <<0, 1>> }

Dims == { Len(v) : v \in Vectors }

\* the text whose embedding is v (the embedding provider is deterministic)
ContentOf(v) ==
  IF v = <<1>> THEN "t_one"
  ELSE IF v = <<1, 0>> THEN "t_x"
  ELSE "t_y"

SourceOf(id) == IF id = "a" THEN "f1.txt" ELSE "f2.txt"

ModelName == "BAAI/bge-large-en-v1.5"

\* EmbeddingResult objects as the generator builds them
EmbeddingResult(id, v) ==
  [ chunk_id      |-> id,
    embedding     |-> v,
    source_file   |-> SourceOf(id),
    content       |-> ContentOf(v),
    model_name    |-> ModelName,
    embedding_dim |-> Len(v) ]

EmbeddingResults == { EmbeddingResult(id, v) : id \in ChunkIds, v \in Vectors }

SeqsUpTo(S, n) == UNION { [1..k -> S] : k \in 0..n }

Batches == SeqsUpTo(EmbeddingResults, MaxBatch)

\* ------------------------------------------------------------------- state
VARIABLES
  index,          \* self.index: the FAISS IndexFlatIP, or None
  metadata,       \* self.metadata: insertion-ordered dict chunk_id -> payload
  dimension,      \* self.dimension
  is_trained,     \* self.is_trained
  index_file,     \* <index_path>/faiss_index.bin
  metadata_file,  \* <index_path>/metadata.pkl
  call            \* the last call and what it returned

storeVars == <<index, metadata, dimension, is_trained, index_file, metadata_file>>
vars == <<index, metadata, dimension, is_trained, index_file, metadata_file, call>>

NoDim == 0

\* self.index = None
NoIndex == [present |-> FALSE, d |-> 0, vecs |-> <<>>]

\* faiss.IndexFlatIP(dimension): an empty flat index
IndexFlatIP(dim) == [present |-> TRUE, d |-> dim, vecs |-> <<>>]

ntotal(idx) == Len(idx.vecs)

NoFile == [exists |-> FALSE, data |-> <<>>]

File(data) == [exists |-> TRUE, data |-> data]

\* ------------------------------------------------------- the metadata dict
\* a dict is the sequence of its [chunk_id, meta] entries in insertion order
KeySet(md) == { md[i].chunk_id : i \in 1..Len(md) }

\* the payload stored for one embedding (upsert_embeddings, lines 142-148)
Payload(emb) ==
  [ source_file   |-> emb.source_file,
    content       |-> emb.content,
    model_name    |-> emb.model_name,
    embedding_dim |-> emb.embedding_dim ]

\* self.metadata[emb.chunk_id] = {...}: a stored key keeps its position
DictSet(md, emb) ==
  IF emb.chunk_id \in KeySet(md)
  THEN [i \in 1..Len(md) |->
          IF md[i].chunk_id = emb.chunk_id
          THEN [chunk_id |-> emb.chunk_id, meta |-> Payload(emb)]
          ELSE md[i]]
  ELSE Append(md, [chunk_id |-> emb.chunk_id, meta |-> Payload(emb)])

RECURSIVE StoreMetadata(_, _)
StoreMetadata(md, embeddings) ==
  IF embeddings = <<>> THEN md
  ELSE StoreMetadata(DictSet(md, Head(embeddings)), Tail(embeddings))

\* ------------------------------------------------------------- call record
\* what the caller passed and got back; "idle" between two calls
Call(op, ret) ==
  [ op |-> op, ret |-> ret, dim |-> 0, batch |-> <<>>, qvec |-> <<>>, top_k |-> 0,
    results |-> <<>>, search_type |-> "", min_score |-> 0, filters |-> {},
    total_results |-> 0, error |-> FALSE,
    vector_results |-> <<>>, keyword_results |-> <<>>, raw |-> <<>>,
    text |-> <<>>, chunker |-> <<>>, directory |-> <<>>,
    chunks |-> <<>>, windows |-> <<>>,
    cleaned |-> <<>>, break_points |-> {}, start_pos |-> 0, chunk_index |-> 0,
    source |-> <<>>, status |-> "", steps_completed |-> <<>>, errors |-> <<>>,
    files_at_start |-> <<>>, writers |-> <<>>, store_at_start |-> <<>> ]

Idle == Call("idle", TRUE)

\* ------------------------------------------------------------------- Init
\* a first LocalVectorDB on an index_path that holds no files
Init ==
  /\ index = NoIndex
  /\ metadata = <<>>
  /\ dimension = NoDim
  /\ is_trained = FALSE
  /\ index_file = NoFile
  /\ metadata_file = NoFile
  /\ call = Idle

\* ---------------------------------------------------------------- actions
\* LocalVectorDB.create_index: always builds a fresh empty index
create_index(dim) ==
  /\ call = Idle
  /\ dimension' = dim
  /\ index' = IndexFlatIP(dim)
  /\ is_trained' = TRUE
  /\ UNCHANGED <<metadata, index_file, metadata_file>>
  /\ call' = [Call("create_index", TRUE) EXCEPT !.dim = dim]

\* delete_index that leaves metadata.pkl on disk
delete_index_KeepsMetadataFile ==
  /\ call = Idle
  /\ index_file' = NoFile
  /\ UNCHANGED metadata_file
  /\ index' = NoIndex
  /\ metadata' = <<>>
  /\ is_trained' = FALSE
  /\ UNCHANGED dimension
  /\ call' = Call("delete_index", TRUE)

\* LocalVectorDB.delete_index: unlink both files, forget index and metadata
delete_index ==
  /\ call = Idle
  /\ index_file' = NoFile
  /\ metadata_file' = NoFile
  /\ index' = NoIndex
  /\ metadata' = <<>>
  /\ is_trained' = FALSE
  /\ UNCHANGED dimension
  /\ call' = Call("delete_index", TRUE)

\* np.vstack(vectors) raises on an empty list and on rows of unequal length
VstackRaises(embeddings) ==
  \/ embeddings = <<>>
  \/ \E i, j \in 1..Len(embeddings) :
        Len(embeddings[i].embedding) # Len(embeddings[j].embedding)

\* index.add(vectors_array) asserts that the rows have the index's dimension
AddRaises(idx, embeddings) ==
  \E i \in 1..Len(embeddings) : Len(embeddings[i].embedding) # idx.d

\* index.add: the rows are appended in batch order
IndexAdd(idx, embeddings) ==
  [idx EXCEPT !.vecs = idx.vecs \o [i \in 1..Len(embeddings) |-> embeddings[i].embedding]]

\* _save_index that writes the FAISS file and not the metadata
save_index_IndexOnly(idx, md, files) ==
  IF idx.present
  THEN [index_file |-> File(idx), metadata_file |-> files.metadata_file]
  ELSE files

\* _save_index: both files are written when there is an index
save_index(idx, md, files) ==
  IF idx.present
  THEN [index_file |-> File(idx), metadata_file |-> File(md)]
  ELSE files

\* LocalVectorDB.upsert_embeddings
upsert_embeddings(embeddings) ==
  /\ call = Idle
  /\ ntotal(index) + Len(embeddings) <= MaxVectors
  /\ IF ~is_trained /\ embeddings = <<>>
     THEN \* line 133: return False
          /\ UNCHANGED storeVars
          /\ call' = [Call("upsert_embeddings", FALSE) EXCEPT !.batch = embeddings]
     ELSE LET \* lines 131-134: create_index(dimension=embeddings[0].embedding_dim)
              created == ~is_trained
              idx0 == IF created THEN IndexFlatIP(embeddings[1].embedding_dim) ELSE index
              dim0 == IF created THEN embeddings[1].embedding_dim ELSE dimension
              \* lines 137-148: the metadata of every record is stored first
              md1 == StoreMetadata(metadata, embeddings)
          IN  IF VstackRaises(embeddings) \/ AddRaises(idx0, embeddings)
              THEN \* lines 162-164: the exception is logged, return False
                   /\ index' = idx0
                   /\ dimension' = dim0
                   /\ is_trained' = TRUE
                   /\ metadata' = md1
                   /\ UNCHANGED <<index_file, metadata_file>>
                   /\ call' = [Call("upsert_embeddings", FALSE) EXCEPT !.batch = embeddings]
              ELSE \* lines 154-160: add, save, return True
                   /\ index' = IndexAdd(idx0, embeddings)
                   /\ dimension' = dim0
                   /\ is_trained' = TRUE
                   /\ metadata' = md1
                   /\ LET saved == save_index(IndexAdd(idx0, embeddings), md1,
                                            [index_file |-> index_file,
                                             metadata_file |-> metadata_file])
                      IN  /\ index_file' = saved.index_file
                          /\ metadata_file' = saved.metadata_file
                   /\ call' = [Call("upsert_embeddings", TRUE) EXCEPT !.batch = embeddings]

\* __init__ (lines 51-54) followed by _load_index: the instance a new
\* LocalVectorDB on this index_path starts with
load_index(ifile, mfile) ==
  IF ifile.exists /\ mfile.exists
  THEN [ index |-> ifile.data, metadata |-> mfile.data,
         dimension |-> ifile.data.d, is_trained |-> TRUE ]
  ELSE [ index |-> NoIndex, metadata |-> <<>>,
         dimension |-> NoDim, is_trained |-> FALSE ]

\* a process restart: a new LocalVectorDB on the same index_path
Reopen ==
  /\ call = Idle
  /\ LET loaded == load_index(index_file, metadata_file)
     IN  /\ index' = loaded.index
         /\ metadata' = loaded.metadata
         /\ dimension' = loaded.dimension
         /\ is_trained' = loaded.is_trained
  /\ UNCHANGED <<index_file, metadata_file>>
  /\ call' = Call("reopen", TRUE)

\* LocalVectorDB.get_stats as a function of the instance
Stats(idx, md, dim, trained) ==
  IF ~trained \/ ~idx.present
  THEN [total_vectors |-> 0, dimension |-> 0]
  ELSE [ total_vectors    |-> ntotal(idx),
         dimension        |-> dim,
         is_trained       |-> trained,
         index_type       |-> "faiss_local",
         metadata_entries |-> Len(md) ]

get_stats ==
  /\ call = Idle
  /\ UNCHANGED storeVars
  /\ call' = Call("get_stats", TRUE)

\* ----------------------------------------------------------------- search
Min(x, y) == IF x <= y THEN x ELSE y

RECURSIVE Dot(_, _)
Dot(q, v) == IF q = <<>> THEN 0 ELSE Head(q) * Head(v) + Dot(Tail(q), Tail(v))

\* the inner product of the query with a stored row, as a score
InnerProduct(q, v) == Dot(q, v) * 1000

\* index.search(query_vector, k) of IndexFlatIP for 1 <= k <= ntotal: the k
\* rows of largest inner product, best first; rows of equal score come in an
\* order FAISS does not promise, so every such order is an outcome
FaissSearch(idx, q, k) ==
  { hits \in [1..k -> 1..ntotal(idx)] :
      /\ \A i, j \in 1..k : i < j =>
           /\ hits[i] # hits[j]
           /\ InnerProduct(q, idx.vecs[hits[i]]) >= InnerProduct(q, idx.vecs[hits[j]])
      /\ \A p \in 1..ntotal(idx) :
           (\A i \in 1..k : hits[i] # p) =>
              InnerProduct(q, idx.vecs[p]) <= InnerProduct(q, idx.vecs[hits[k]]) }

SearchResult(entry, score) ==
  [ chunk_id    |-> entry.chunk_id,
    content     |-> entry.meta.content,
    source_file |-> entry.meta.source_file,
    score       |-> score,
    metadata    |-> entry.meta ]

\* lines 192-210: position idx is looked up in list(self.metadata.keys());
\* a position beyond the keys yields no result
ToResults(idx, md, q, hits) ==
  LET InKeys(p) == p <= Len(md)
      kept == SelectSeq(hits, InKeys)
  IN  [i \in 1..Len(kept) |->
         SearchResult(md[kept[i]], InnerProduct(q, idx.vecs[kept[i]]))]

\* search that asks FAISS for top_k rows whatever ntotal is and does not stop
\* at the -1 padding: position -1 is the last key of the metadata
SearchOutcomes_Padded(idx, md, trained, q, top_k) ==
  IF ~trained \/ ~idx.present
  THEN {<<>>}
  ELSE IF Len(q) # idx.d \/ top_k < 1
  THEN {<<>>}
  ELSE { ToResults(idx, md, q, hits) \o
           [i \in 1..(IF md = <<>> THEN 0 ELSE top_k - Len(hits)) |->
              SearchResult(md[Len(md)], -1000000)] :
           hits \in FaissSearch(idx, q, Min(top_k, ntotal(idx))) }

\* search that asks FAISS for every row of the index, whatever top_k is
SearchOutcomes_AllRows(idx, md, trained, q, top_k) ==
  IF ~trained \/ ~idx.present
  THEN {<<>>}
  ELSE IF Len(q) # idx.d \/ ntotal(idx) < 1
  THEN {<<>>}
  ELSE { ToResults(idx, md, q, hits) : hits \in FaissSearch(idx, q, ntotal(idx)) }

\* LocalVectorDB.search: the result lists it can return
SearchOutcomes(idx, md, trained, q, top_k) ==
  IF ~trained \/ ~idx.present
  THEN {<<>>}                      \* lines 181-183
  ELSE IF Len(q) # idx.d \/ Min(top_k, ntotal(idx)) < 1
  THEN {<<>>}                      \* index.search raises; lines 215-217
  ELSE { ToResults(idx, md, q, hits) :
           hits \in FaissSearch(idx, q, Min(top_k, ntotal(idx))) }

search(query_embedding, top_k) ==
  /\ call = Idle
  /\ \E results \in SearchOutcomes(index, metadata, is_trained, query_embedding, top_k) :
       call' = [Call("search", TRUE) EXCEPT
                  !.qvec = query_embedding, !.top_k = top_k, !.results = results]
  /\ UNCHANGED storeVars

\* ------------------------------------------------------- ClaimsSearchAPI
SearchTypes == {"vector", "keyword", "hybrid", "fuzzy"}

\* query texts; Embed is the embedding provider on them
QueryTexts == { ContentOf(v) : v \in Vectors }

Embed(text) == CHOOSE v \in Vectors : ContentOf(v) = text

MinScores == {0, 800}

\* query.filters: one item per key; a value is a scalar or a list
Scalar(key, v) == [key |-> key, isList |-> FALSE, val |-> v, vals |-> {}]

List(key, vs) == [key |-> key, isList |-> TRUE, val |-> "", vals |-> vs]

FilterChoices ==
  { {},
    {Scalar("source_file", SourceOf("a"))},
    {List("content", {ContentOf(<<1>>), ContentOf(<<1, 0>>)})},
    {Scalar("claim_type", "property")} }

\* _vector_search: embed the query, search the store; any exception gives []
vector_search(idx, md, trained, query_text, embed_ok, top_k) ==
  IF ~embed_ok THEN {<<>>}
  ELSE SearchOutcomes(idx, md, trained, Embed(query_text), top_k)

\* _keyword_search: the placeholder returns no results
keyword_search(query_text) == <<>>

\* score * 0.7 and score * 0.3, from the weight in tenths
Weighted(score, tenths) == (score * tenths) \div 10

HasKey(items, id) == \E i \in 1..Len(items) : items[i].result.chunk_id = id

\* combined_results[chunk_id] = {...} for a vector result (lines 222-229)
PutVector(items, r) ==
  LET item == [result |-> r, combined_score |-> Weighted(r.score, 7)]
  IN  IF HasKey(items, r.chunk_id)
      THEN [i \in 1..Len(items) |->
              IF items[i].result.chunk_id = r.chunk_id THEN item ELSE items[i]]
      ELSE Append(items, item)

\* lines 232-243 for a keyword result
PutKeyword(items, r) ==
  IF HasKey(items, r.chunk_id)
  THEN [i \in 1..Len(items) |->
          IF items[i].result.chunk_id = r.chunk_id
          THEN [items[i] EXCEPT !.combined_score = @ + Weighted(r.score, 3)]
          ELSE items[i]]
  ELSE Append(items, [result |-> r, combined_score |-> Weighted(r.score, 3)])

RECURSIVE PutAll(_, _, _)
PutAll(items, rs, isVector) ==
  IF rs = <<>> THEN items
  ELSE PutAll(IF isVector THEN PutVector(items, Head(rs)) ELSE PutKeyword(items, Head(rs)),
              Tail(rs), isVector)

\* a sort that is not stable: an item goes before the items of equal score
RECURSIVE InsertDesc_BeforeEqual(_, _)
InsertDesc_BeforeEqual(sorted, item) ==
  IF sorted = <<>> THEN <<item>>
  ELSE IF Head(sorted).combined_score > item.combined_score
  THEN <<Head(sorted)>> \o InsertDesc_BeforeEqual(Tail(sorted), item)
  ELSE <<item>> \o sorted

\* sorted(..., key=combined_score, reverse=True): stable, largest first
RECURSIVE InsertDesc(_, _)
InsertDesc(sorted, item) ==
  IF sorted = <<>> THEN <<item>>
  ELSE IF Head(sorted).combined_score >= item.combined_score
  THEN <<Head(sorted)>> \o InsertDesc(Tail(sorted), item)
  ELSE <<item>> \o sorted

RECURSIVE SortDesc(_, _)
SortDesc(done, items) ==
  IF items = <<>> THEN done
  ELSE SortDesc(InsertDesc(done, Head(items)), Tail(items))

\* _combine_search_results sorting without reverse=True
combine_search_results_Ascending(vector_results, keyword_results) ==
  LET items == PutAll(PutAll(<<>>, vector_results, TRUE), keyword_results, FALSE)
      sorted_results == SortDesc(<<>>, items)
      n == Len(sorted_results)
  IN  [i \in 1..n |->
         [sorted_results[n + 1 - i].result EXCEPT
            !.score = sorted_results[n + 1 - i].combined_score]]

\* _combine_search_results
combine_search_results(vector_results, keyword_results) ==
  LET items == PutAll(PutAll(<<>>, vector_results, TRUE), keyword_results, FALSE)
      sorted_results == SortDesc(<<>>, items)
  IN  [i \in 1..Len(sorted_results) |->
         [sorted_results[i].result EXCEPT !.score = sorted_results[i].combined_score]]

\* _hybrid_search
hybrid_search(idx, md, trained, query_text, embed_ok, top_k) ==
  { combine_search_results(v, keyword_search(query_text)) :
      v \in vector_search(idx, md, trained, query_text, embed_ok, top_k) }

\* _apply_filters that drops a result whose metadata lacks a filter key
Passes_RequiresKey(result, filters) ==
  \A f \in filters :
    /\ f.key \in DOMAIN result.metadata
    /\ IF f.isList THEN result.metadata[f.key] \in f.vals
       ELSE result.metadata[f.key] = f.val

\* _apply_filters: a key the metadata lacks excludes nothing
Passes(result, filters) ==
  \A f \in filters :
    f.key \in DOMAIN result.metadata =>
      IF f.isList THEN result.metadata[f.key] \in f.vals
      ELSE result.metadata[f.key] = f.val

apply_filters(results, filters) ==
  LET Include(r) == Passes(r, filters)
  IN  SelectSeq(results, Include)

Prefix(s, n) == IF n >= Len(s) THEN s ELSE SubSeq(s, 1, n)

\* post-processing that slices [:top_k] before it filters
PostProcess_TruncateFirst(results, min_score, filters, top_k) ==
  LET AtLeast(r) == r.score >= min_score
      byScore == SelectSeq(Prefix(results, top_k), AtLeast)
  IN  IF filters # {} THEN apply_filters(byScore, filters) ELSE byScore

\* lines 96-104: min_score, filters, top_k
PostProcess(results, min_score, filters, top_k) ==
  LET AtLeast(r) == r.score >= min_score
      byScore == SelectSeq(results, AtLeast)
      filtered == IF filters # {} THEN apply_filters(byScore, filters) ELSE byScore
  IN  Prefix(filtered, top_k)

\* the raw result lists of the selected search path
PathOutcomes(idx, md, trained, search_type, query_text, embed_ok, top_k) ==
  IF search_type = "vector"
  THEN vector_search(idx, md, trained, query_text, embed_ok, top_k)
  ELSE IF search_type = "keyword"
  THEN {keyword_search(query_text)}
  ELSE hybrid_search(idx, md, trained, query_text, embed_ok, top_k)

\* search without its except clause: the exception reaches the caller, no
\* response is returned
Response_Propagates(search_type, top_k, min_score, filters, final_results, failed) ==
  [Call("api_search", ~failed) EXCEPT
     !.search_type = search_type, !.top_k = top_k,
     !.min_score = min_score, !.filters = filters,
     !.results = final_results,
     !.total_results = Len(final_results),
     !.error = failed]

\* the response built from the final results (lines 108-119) or from the
\* exception (lines 126-133); ret: a SearchResponse came back to the caller
Response(search_type, top_k, min_score, filters, final_results, failed) ==
  [Call("api_search", TRUE) EXCEPT
     !.search_type = search_type, !.top_k = top_k,
     !.min_score = min_score, !.filters = filters,
     !.results = final_results,
     !.total_results = Len(final_results),
     !.error = failed]

\* self.metadata after _combine_search_results has rewritten the scores: a
\* SearchResult carries the very dict the store holds (local_vector_db.py
\* line 201), and result.score = ... (line 256) assigns the attribute of the
\* SearchResult, not an entry of that dict
StoredAfterRewrite(md, results) == md

\* ClaimsSearchAPI.search(SearchQuery(query_text, search_type, top_k,
\* min_score, filters)); embed_ok: the embedding provider answers
ClaimsSearchAPI_search(search_type, query_text, embed_ok, top_k) ==
  /\ call = Idle
  /\ UNCHANGED <<index, dimension, is_trained, index_file, metadata_file>>
  /\ IF search_type \notin {"vector", "keyword", "hybrid"}
     THEN \* line 94 raises ValueError
          /\ UNCHANGED metadata
          /\ \E min_score \in MinScores, filters \in FilterChoices :
               call' = Response(search_type, top_k, min_score, filters, <<>>, TRUE)
     ELSE \E raw \in PathOutcomes(index, metadata, is_trained, search_type,
                                  query_text, embed_ok, top_k) :
            /\ metadata' = IF search_type = "hybrid"
                           THEN StoredAfterRewrite(metadata, raw)
                           ELSE metadata
            /\ \E min_score \in MinScores, filters \in FilterChoices :
                 call' = Response(search_type, top_k, min_score, filters,
                                  PostProcess(raw, min_score, filters, top_k), FALSE)

\* the caller has seen the result of the last call
Return ==
  /\ call # Idle
  /\ call' = Idle
  /\ UNCHANGED storeVars

Next ==
  \/ \E dim \in Dims : create_index(dim)
  \/ delete_index
  \/ \E embeddings \in Batches : upsert_embeddings(embeddings)
  \/ Reopen
  \/ get_stats
  \/ \E q \in Vectors, k \in 1..MaxTopK : search(q, k)
  \/ Return

\* the store and its direct callers
Spec == Init /\ [][Next]_vars

\* the texts a query is made of; a failing provider ignores the text
QueryInputs ==
  { <<text, TRUE>> : text \in QueryTexts } \cup { <<ContentOf(<<1>>), FALSE>> }

NextSearch ==
  \/ \E dim \in Dims : create_index(dim)
  \/ delete_index
  \/ \E embeddings \in Batches : upsert_embeddings(embeddings)
  \/ Reopen
  \/ get_stats
  \/ \E q \in Vectors, k \in 1..MaxTopK : search(q, k)
  \/ \E t \in SearchTypes, qi \in QueryInputs, k \in 1..MaxTopK :
       ClaimsSearchAPI_search(t, qi[1], qi[2], k)
  \/ Return

\* the store with the search API on top of it
SpecSearch == Init /\ [][NextSearch]_vars

\* --------------------------------------- merge and post-processing alone
\* result lists as a search path can hand them on: SearchResult objects of
\* distinct chunk_ids, any scores in any order; the metadata of "b" and "c"
\* carries a claim_type on top of the payload (the **emb.metadata of line 147)
ResultIds == {"a", "b", "c"}

ResultScores == {300, 700, 1000}

VectorOf(id) == IF id = "a" THEN <<1>> ELSE IF id = "b" THEN <<1, 0>> ELSE <<0, 1>>

MetaOf(id) ==
  LET payload == Payload(EmbeddingResult(id, VectorOf(id)))
  IN  IF id = "a" THEN payload
      ELSE [k \in DOMAIN payload \cup {"claim_type"} |->
              IF k = "claim_type" THEN (IF id = "b" THEN "property" ELSE "auto")
              ELSE payload[k]]

Results ==
  { SearchResult([chunk_id |-> id, meta |-> MetaOf(id)], score) :
      id \in ResultIds, score \in ResultScores }

ResultLists ==
  { rs \in SeqsUpTo(Results, MaxResults) :
      \A i, j \in 1..Len(rs) : i # j => rs[i].chunk_id # rs[j].chunk_id }

\* _combine_search_results on two result lists
CombineSearchResults ==
  /\ call = Idle
  /\ UNCHANGED storeVars
  /\ \E vector_results \in ResultLists, keyword_results \in ResultLists :
       call' = [Call("combine_search_results", TRUE) EXCEPT
                  !.vector_results = vector_results,
                  !.keyword_results = keyword_results,
                  !.results = combine_search_results(vector_results, keyword_results)]

\* lines 96-104 of search on the raw results of a search path
PostProcessResults ==
  /\ call = Idle
  /\ UNCHANGED storeVars
  /\ \E raw \in ResultLists, min_score \in MinScores, filters \in FilterChoices,
        top_k \in 1..MaxTopK :
       call' = [Call("post_process", TRUE) EXCEPT
                  !.raw = raw, !.min_score = min_score, !.filters = filters,
                  !.top_k = top_k,
                  !.results = PostProcess(raw, min_score, filters, top_k)]

NextQuery ==
  \/ CombineSearchResults
  \/ PostProcessResults
  \/ Return

\* the merge and the post-processing on every result list
SpecQuery == Init /\ [][NextQuery]_vars

\* ---------------------------------------------------- ClaimsTextChunker
\* a text is the sequence of its characters: a letter, a sentence end, and
\* two kinds of whitespace
Chars == {"x", ".", " ", "\n"}

Texts == SeqsUpTo(Chars, MaxTextLen)

IsSpace(c) == c \in {" ", "\n"}

Max(x, y) == IF x >= y THEN x ELSE y

RECURSIVE lstrip(_)
lstrip(t) == IF t # <<>> /\ IsSpace(Head(t)) THEN lstrip(Tail(t)) ELSE t

RECURSIVE rstrip(_)
rstrip(t) ==
  IF t # <<>> /\ IsSpace(t[Len(t)]) THEN rstrip(SubSeq(t, 1, Len(t) - 1)) ELSE t

\* str.strip()
strip(t) == rstrip(lstrip(t))

\* re.sub(r'\s+', ' ', text): every run of whitespace becomes one space
RECURSIVE CollapseSpaces(_)
CollapseSpaces(t) ==
  IF t = <<>> THEN <<>>
  ELSE IF IsSpace(Head(t))
  THEN <<" ">> \o CollapseSpaces(lstrip(t))
  ELSE <<Head(t)>> \o CollapseSpaces(Tail(t))

\* a character of [\x00-\x08\x0b\x0c\x0e-\x1f\x7f-\x9f] that is not whitespace
IsControl(c) == c = "ctl"

\* re.sub(r'[\x00-\x08...]', '', text): the control characters are dropped
RemoveControl(t) ==
  LET Printable(c) == ~IsControl(c)
  IN  SelectSeq(t, Printable)

\* _clean_text: whitespace runs become one space (line 90; line 93 then finds
\* no newline), control characters are removed (line 96), the ends are
\* stripped (line 98)
clean_text(text) == strip(RemoveControl(CollapseSpaces(text)))

\* the whitespace run text[s..e] (1-based) that ends at e
IsSpaceRun(text, s, e) == s <= e /\ \A i \in s..e : IsSpace(text[i])

\* the ends of the matches of [.!?]+\s+ (line 110): the 0-based position
\* after a maximal whitespace run that follows a sentence end
SentenceEnds(text) ==
  { e \in 2..Len(text) :
      /\ IsSpace(text[e])
      /\ (e = Len(text) \/ ~IsSpace(text[e + 1]))
      /\ \E s \in 2..e : IsSpaceRun(text, s, e) /\ text[s - 1] = "." }

\* the starts of the matches of \n\s*\n (line 115) found from 1-based index
\* from on, as finditer finds them: leftmost first, greedy, not overlapping
RECURSIVE ParagraphBreaksFrom(_, _)
ParagraphBreaksFrom(text, from) ==
  LET Last(s) == CHOOSE e \in s..Len(text) :
                   /\ IsSpaceRun(text, s, e)
                   /\ (e = Len(text) \/ ~IsSpace(text[e + 1]))
      LastNewline(s) == CHOOSE n \in s..Last(s) :
                          /\ text[n] = "\n"
                          /\ \A n2 \in (n + 1)..Last(s) : text[n2] # "\n"
      starts == { s \in from..Len(text) : text[s] = "\n" /\ LastNewline(s) > s }
  IN  IF starts = {} THEN {}
      ELSE LET s == CHOOSE x \in starts : \A y \in starts : x <= y
           IN  {s - 1} \cup ParagraphBreaksFrom(text, LastNewline(s) + 1)

ParagraphBreaks(text) == ParagraphBreaksFrom(text, 1)

\* _find_break_points as a set of 0-based positions: 0, len(text), the
\* sentence ends and the paragraph boundaries; the section patterns of lines
\* 49-53 start with a newline like the paragraph pattern and need characters
\* (capitals, digits, colon, dashes) the alphabet does not have
find_break_points(text) ==
  {0, Len(text)} \cup SentenceEnds(text) \cup ParagraphBreaks(text)

\* a search that takes the first break point from search_start on, past the
\* window's end if need be
find_best_break_point_Forward(chunk_size, start, end, break_points) ==
  LET search_start == Max(start, end - (chunk_size \div 5))
      near == { bp \in break_points : search_start <= bp /\ bp > start }
  IN  IF near # {} THEN CHOOSE bp \in near : \A b2 \in near : bp <= b2
      ELSE end

\* a search that walks the break points in ascending order
find_best_break_point_Ascending(chunk_size, start, end, break_points) ==
  LET search_start == Max(start, end - (chunk_size \div 5))
      near == { bp \in break_points : search_start <= bp /\ bp <= end }
  IN  IF near # {} THEN CHOOSE bp \in near : \A b2 \in near : bp <= b2
      ELSE end

\* _find_best_break_point: the last break point in the last fifth of the
\* window, else the window's end
find_best_break_point(chunk_size, start, end, break_points) ==
  LET search_start == Max(start, end - (chunk_size \div 5))
      near == { bp \in break_points : search_start <= bp /\ bp <= end }
  IN  IF near # {} THEN CHOOSE bp \in near : \A b2 \in near : b2 <= bp
      ELSE end

\* chunk_id = f"{Path(source_file).stem}_chunk_{chunk_index:03d}": the string
\* determines the stem and the index, and is determined by them
ChunkId(stem, chunk_index) == <<stem, "_chunk_", chunk_index>>

TextChunk(content, source_file, chunk_index, start_pos, end_pos) ==
  [ content     |-> content,
    chunk_id    |-> ChunkId(source_file.stem, chunk_index),
    source_file |-> source_file,
    chunk_index |-> chunk_index,
    start_char  |-> start_pos,
    end_char    |-> end_pos ]

\* a size test that lets every window through
TooSmall_Never(chunk_content, min_chunk_size) == FALSE

\* line 147
TooSmall(chunk_content, min_chunk_size) == Len(chunk_content) < min_chunk_size

\* a skipped window that uses up a chunk_index
IndexAfterSkip_Counts(chunk_index) == chunk_index + 1

\* lines 148-149: a skipped window leaves chunk_index as it is
IndexAfterSkip(chunk_index) == chunk_index

\* a next start that may stay where it was
NextStart_NoFloor(start_pos, end_pos, chunk_overlap) ==
  Max(0, end_pos - chunk_overlap)

\* line 171: the start of the window after an emitted chunk
NextStart(start_pos, end_pos, chunk_overlap) ==
  Max(start_pos + 1, end_pos - chunk_overlap)

\* one pass through the body of the while loop of _create_chunks (lines
\* 135-171) for the window at start_pos; acc holds the chunks emitted so far,
\* the windows looked at and chunk_index
Iteration(text, break_points, source_file, chunker, start_pos, acc) ==
  LET window_end == Min(start_pos + chunker.chunk_size, Len(text))
      best_break == find_best_break_point(chunker.chunk_size, start_pos,
                                          window_end, break_points)
      end_pos == IF best_break > start_pos THEN best_break ELSE window_end
      chunk_content == strip(SubSeq(text, start_pos + 1, end_pos))
      seen == Append(acc.windows, [start_pos |-> start_pos, end_pos |-> end_pos])
  IN  IF TooSmall(chunk_content, chunker.min_chunk_size)
      THEN [ start_pos |-> end_pos,
             acc |-> [acc EXCEPT !.windows = seen,
                                 !.chunk_index = IndexAfterSkip(acc.chunk_index)] ]
      ELSE [ start_pos |-> NextStart(start_pos, end_pos, chunker.chunk_overlap),
             acc |-> [ chunks |-> Append(acc.chunks,
                                    TextChunk(chunk_content, source_file,
                                              acc.chunk_index, start_pos, end_pos)),
                       windows |-> seen,
                       chunk_index |-> acc.chunk_index + 1 ] ]

\* the while loop of _create_chunks from start_pos on
RECURSIVE CreateChunksFrom(_, _, _, _, _, _)
CreateChunksFrom(text, break_points, source_file, chunker, start_pos, acc) ==
  IF start_pos >= Len(text) THEN acc
  ELSE LET next == Iteration(text, break_points, source_file, chunker, start_pos, acc)
       IN  CreateChunksFrom(text, break_points, source_file, chunker,
                            next.start_pos, next.acc)

NoChunks == [chunks |-> <<>>, windows |-> <<>>, chunk_index |-> 0]

\* _create_chunks
create_chunks(text, break_points, source_file, chunker) ==
  CreateChunksFrom(text, break_points, source_file, chunker, 0, NoChunks)

\* chunk_text: the chunks, and the windows _create_chunks looked at
chunk_text(text, source_file, chunker) ==
  IF text = <<>> \/ Len(strip(text)) < chunker.min_chunk_size
  THEN NoChunks
  ELSE LET cleaned_text == clean_text(text)
       IN  create_chunks(cleaned_text, find_break_points(cleaned_text),
                         source_file, chunker)

ClaimsTextChunker(chunk_size, chunk_overlap, min_chunk_size) ==
  [ chunk_size |-> chunk_size, chunk_overlap |-> chunk_overlap,
    min_chunk_size |-> min_chunk_size ]

Chunkers ==
  { ClaimsTextChunker(cs, co, mn) : cs \in {3, 5}, co \in {0, 1, 2}, mn \in {2, 3} }

\* Path(file_path).name of a path [dir, stem, suffix]
FileName(path) == [stem |-> path.stem, suffix |-> path.suffix]

\* the files a source directory may hold, in its subdirectories
Paths ==
  { [dir |-> "sub1", stem |-> "claim", suffix |-> ".txt"],
    [dir |-> "sub2", stem |-> "claim", suffix |-> ".txt"],
    [dir |-> "sub1", stem |-> "notes", suffix |-> ".TXT"],
    [dir |-> "sub1", stem |-> "readme", suffix |-> ".md"] }

\* str.lower() on a suffix
Lower(suffix) == IF suffix = ".TXT" THEN ".txt" ELSE suffix

FileTexts == { <<"x">>, <<"x", "x", ".", " ", "x", "x">> }

\* a directory tree: the text of every file in it
Directories == UNION { [present -> FileTexts] : present \in SUBSET Paths }

\* the orders in which rglob may yield the files
Orders(directory) ==
  { o \in [1..Cardinality(DOMAIN directory) -> DOMAIN directory] :
      \A i, j \in DOMAIN o : i # j => o[i] # o[j] }

\* chunk_file: the text of the file is chunked under the file's name
chunk_file(directory, path, chunker) ==
  chunk_text(directory[path], FileName(path), chunker).chunks

\* the loop of chunk_directory over the files in rglob order
RECURSIVE ChunkFiles(_, _, _)
ChunkFiles(directory, order, chunker) ==
  IF order = <<>> THEN <<>>
  ELSE (IF Lower(Head(order).suffix) \in {".txt"}
        THEN chunk_file(directory, Head(order), chunker)
        ELSE <<>>)
       \o ChunkFiles(directory, Tail(order), chunker)

\* ClaimsTextChunker(chunk_size=512, chunk_overlap=50) of web_app.py, scaled
WebAppChunker == ClaimsTextChunker(5, 1, 2)

\* chunker.chunk_text(text, source_file)
ChunkText ==
  /\ call = Idle
  /\ UNCHANGED storeVars
  /\ \E text \in Texts, chunker \in Chunkers :
       LET out == chunk_text(text, [stem |-> "claim", suffix |-> ".txt"], chunker)
       IN  call' = [Call("chunk_text", TRUE) EXCEPT
                      !.text = text, !.chunker = chunker,
                      !.chunks = out.chunks, !.windows = out.windows]

\* chunker.chunk_directory(source_dir)
ChunkDirectory ==
  /\ call = Idle
  /\ UNCHANGED storeVars
  /\ \E directory \in Directories :
       \E order \in Orders(directory) :
         call' = [Call("chunk_directory", TRUE) EXCEPT
                    !.directory = directory, !.chunker = WebAppChunker,
                    !.chunks = ChunkFiles(directory, order, WebAppChunker)]

NextChunk ==
  \/ ChunkDirectory
  \/ ChunkText
  \/ Return

\* the chunker on every text and every directory
SpecChunk == Init /\ [][NextChunk]_vars

\* ------------------------------------------------- the chunking loop, stepwise
\* configurations of the loop, with chunk_overlap >= chunk_size among them
LoopChunkers ==
  { ClaimsTextChunker(cs, co, 1) : cs \in {1, 2, 5}, co \in {0, 2, 5} }

\* chunk_text up to the first test of the while condition (lines 71-82,
\* 130-134): the text is cleaned and its break points are found once
EnterLoop ==
  /\ call = Idle
  /\ UNCHANGED storeVars
  /\ \E text \in SeqsUpTo(Chars, MaxLoopLen), chunker \in LoopChunkers :
       /\ ~(text = <<>> \/ Len(strip(text)) < chunker.min_chunk_size)
       /\ call' = [Call("create_chunks", FALSE) EXCEPT
                     !.cleaned = clean_text(text),
                     !.break_points = find_break_points(clean_text(text)),
                     !.chunker = chunker]

\* the while condition holds: one pass through the loop body
LoopIteration ==
  /\ call.op = "create_chunks" /\ ~call.ret
  /\ call.start_pos < Len(call.cleaned)
  /\ UNCHANGED storeVars
  /\ \E next \in { Iteration(call.cleaned, call.break_points,
                              [stem |-> "claim", suffix |-> ".txt"], call.chunker,
                              call.start_pos,
                              [chunks |-> call.chunks, windows |-> call.windows,
                               chunk_index |-> call.chunk_index]) } :
       call' = [call EXCEPT !.start_pos = next.start_pos,
                            !.chunks = next.acc.chunks,
                            !.windows = next.acc.windows,
                            !.chunk_index = next.acc.chunk_index]

\* the while condition fails: line 173 returns the chunks
LoopExit ==
  /\ call.op = "create_chunks" /\ ~call.ret
  /\ call.start_pos >= Len(call.cleaned)
  /\ UNCHANGED storeVars
  /\ call' = [call EXCEPT !.ret = TRUE]

\* the caller has the chunks
LoopReturn ==
  /\ call.op = "create_chunks" /\ call.ret
  /\ UNCHANGED storeVars
  /\ call' = Idle

NextLoop ==
  \/ EnterLoop
  \/ LoopIteration
  \/ LoopExit
  \/ LoopReturn

\* the loop runs on: a thread that is in the loop takes its next step
SpecChunkLoop ==
  Init /\ [][NextLoop]_vars /\ WF_vars(LoopIteration) /\ WF_vars(LoopExit)

\* ------------------------------------------------------------ _clean_text alone
RawChars == Chars \cup {"ctl"}

RawTexts == SeqsUpTo(RawChars, MaxTextLen)

\* chunker._clean_text(text)
CleanText ==
  /\ call = Idle
  /\ UNCHANGED storeVars
  /\ \E text \in RawTexts :
       call' = [Call("clean_text", TRUE) EXCEPT
                  !.text = text, !.cleaned = clean_text(text)]

NextClean ==
  \/ CleanText
  \/ Return

\* _clean_text on every text
SpecClean == Init /\ [][NextClean]_vars

\* ------------------------------------------ EmbeddingsPipeline.run_full_pipeline
\* The pipeline runs on a local store.  A stage can fail for a reason outside
\* the program (the embedding provider, FAISS, the output directory): the
\* stages after the chunking take a fault flag.  call holds results and the position of the run;
\* call.files_at_start remembers the two index files as the run found them.
PipelineSteps ==
  << "chunking", "embeddings_generation", "vector_database_setup",
     "embeddings_storage", "metadata_save" >>

\* what the source directory leads to: no directory, no *.txt file, or text
\* files and the embeddings of their chunks (one model, so one dimension;
\* none when every text is too short to chunk; the chunk ids of one run are
\* taken to differ)
PipelineSources ==
  { [kind |-> k, embeddings |-> <<>>] : k \in {"missing", "no_txt"} }
    \cup { [kind |-> "txt", embeddings |-> b] :
             b \in { b \in SeqsUpTo(EmbeddingResults, MaxChunks) :
                       \A i, j \in 1..Len(b) :
                         /\ b[i].embedding_dim = b[j].embedding_dim
                         /\ i # j => b[i].chunk_id # b[j].chunk_id } }

\* the except clause with an errors list that stays empty
Failed_NoError(results, error_msg) ==
  [results EXCEPT !.status = "failed", !.ret = TRUE]

\* the except clause (lines 131-136) and the return of results
Failed(results, error_msg) ==
  [results EXCEPT !.errors = Append(@, error_msg), !.status = "failed", !.ret = TRUE]

\* a step is appended to results['steps_completed']
Completed(results, step) ==
  [results EXCEPT !.steps_completed = Append(@, step)]

\* the run is in the try block and has completed exactly these steps
Running(steps) ==
  /\ call.op = "run_full_pipeline"
  /\ call.status = "running"
  /\ call.steps_completed = steps

\* lines 80-90: results is built, the try block is entered
run_full_pipeline ==
  /\ call = Idle
  /\ UNCHANGED storeVars
  /\ \E source \in PipelineSources :
       call' = [Call("run_full_pipeline", FALSE) EXCEPT
                  !.source = source, !.status = "running",
                  !.files_at_start = <<index_file, metadata_file>>]

\* step 1, _chunk_files (chunk_file returns [] when it cannot chunk a file)
StepChunking ==
  /\ Running(<<>>)
  /\ UNCHANGED storeVars
  /\ call' = IF call.source.kind = "missing"
             THEN Failed(call, "Pipeline failed: Source directory not found")
             ELSE IF call.source.kind = "no_txt"
             THEN Failed(call, "Pipeline failed: No text files found")
             ELSE Completed(call, "chunking")

\* step 2, _generate_embeddings
StepEmbeddings ==
  /\ Running(SubSeq(PipelineSteps, 1, 1))
  /\ UNCHANGED storeVars
  /\ \E fault \in BOOLEAN :
       call' = IF call.source.embeddings = <<>>
               THEN Failed(call, "Pipeline failed: No chunks to process")
               ELSE IF fault
               THEN Failed(call, "Pipeline failed: provider")
               ELSE [Completed(call, "embeddings_generation") EXCEPT
                       !.batch = call.source.embeddings]

\* step 3, _setup_vector_database: create_index(dimension=embedding_dim)
StepSetup ==
  /\ Running(SubSeq(PipelineSteps, 1, 2))
  /\ UNCHANGED <<metadata, index_file, metadata_file>>
  /\ dimension' = call.batch[1].embedding_dim
  /\ \E fault \in BOOLEAN :
       IF fault
       THEN \* IndexFlatIP raises after line 74; create_index returns False
            /\ UNCHANGED <<index, is_trained>>
            /\ call' = Failed(call, "Pipeline failed: Failed to create vector database index")
       ELSE /\ index' = IndexFlatIP(call.batch[1].embedding_dim)
            /\ is_trained' = TRUE
            /\ call' = Completed(call, "vector_database_setup")

\* upsert_embeddings on a trained index whose vstack or add raises after the
\* index files were written
Upsert_SavesBeforeAdd(idx, md, files, embeddings, fault) ==
  LET md1 == StoreMetadata(md, embeddings)
  IN  IF fault \/ VstackRaises(embeddings) \/ AddRaises(idx, embeddings)
      THEN [ ok |-> FALSE, index |-> idx, metadata |-> md1,
             files |-> save_index(idx, md1, files) ]
      ELSE [ ok |-> TRUE, index |-> IndexAdd(idx, embeddings), metadata |-> md1,
             files |-> save_index(IndexAdd(idx, embeddings), md1, files) ]

\* upsert_embeddings on a trained index (lines 136-164): the metadata is
\* stored, then vstack and add, then the save; an exception on the way leaves
\* what was done and returns False
Upsert(idx, md, files, embeddings, fault) ==
  LET md1 == StoreMetadata(md, embeddings)
  IN  IF fault \/ VstackRaises(embeddings) \/ AddRaises(idx, embeddings)
      THEN [ ok |-> FALSE, index |-> idx, metadata |-> md1, files |-> files ]
      ELSE [ ok |-> TRUE, index |-> IndexAdd(idx, embeddings), metadata |-> md1,
             files |-> save_index(IndexAdd(idx, embeddings), md1, files) ]

\* step 4, _store_embeddings
StepStorage ==
  /\ Running(SubSeq(PipelineSteps, 1, 3))
  /\ UNCHANGED <<dimension, is_trained>>
  /\ \E fault \in BOOLEAN :
       LET done == Upsert(index, metadata,
                          [index_file |-> index_file, metadata_file |-> metadata_file],
                          call.batch, fault)
       IN  /\ index' = done.index
           /\ metadata' = done.metadata
           /\ index_file' = done.files.index_file
           /\ metadata_file' = done.files.metadata_file
           /\ call' = IF done.ok
                      THEN Completed(call, "embeddings_storage")
                      ELSE Failed(call, "Pipeline failed: Failed to store embeddings")

\* step 5, _save_metadata, and lines 124-125
StepMetadata ==
  /\ Running(SubSeq(PipelineSteps, 1, 4))
  /\ UNCHANGED storeVars
  /\ \E fault \in BOOLEAN :
       call' = IF fault
               THEN Failed(call, "Pipeline failed: pipeline_metadata.json")
               ELSE [Completed(call, "metadata_save") EXCEPT
                       !.status = "success", !.ret = TRUE]

\* line 138: return results
PipelineReturn ==
  /\ call.op = "run_full_pipeline" /\ call.ret
  /\ UNCHANGED storeVars
  /\ call' = Idle

PipelineStep ==
  \/ StepChunking
  \/ StepEmbeddings
  \/ StepSetup
  \/ StepStorage
  \/ StepMetadata

NextPipeline ==
  \/ run_full_pipeline
  \/ PipelineStep
  \/ PipelineReturn

\* run after run on one pipeline object; a run that has started goes on
SpecPipeline == Init /\ [][NextPipeline]_vars /\ WF_vars(PipelineStep)

\* ------------------------------------------- text extraction into source files
\* the marker an extraction that failed puts in front of its text
Marker == <<"E", "r", "r", "o", "r">>

\* str.startswith
startswith(text, prefix) ==
  Len(text) >= Len(prefix) /\ SubSeq(text, 1, Len(prefix)) = prefix

\* what process_file returns as extracted_text: a text, or the marker and a
\* message
ExtractedTexts ==
  { m \o body : m \in {<<>>, Marker}, body \in SeqsUpTo({"x", ".", " "}, MaxExtractLen) }

\* source_output_files/<stem>.txt
OutputPath == [dir |-> "source_output_files", stem |-> "claim", suffix |-> ".txt"]

NoFiles == [path \in {} |-> <<>>]

\* ClaimsTextChunker(chunk_size=512, chunk_overlap=50, min_chunk_size=100) of
\* the pipeline, scaled
PipelineChunker == ClaimsTextChunker(5, 1, 2)

\* scripts/extract_text_batch.py, one file of the loop of main: the text is
\* written, then 'success' is worked out
ExtractTextBatch ==
  /\ call = Idle
  /\ UNCHANGED storeVars
  /\ \E extracted_text \in ExtractedTexts :
       call' = [Call("extract_text_batch", ~startswith(extracted_text, Marker)) EXCEPT
                  !.text = extracted_text,
                  !.directory = [path \in {OutputPath} |-> extracted_text]]

\* phase_2_extract_text, one file of its loop: the text is written when it
\* is not empty and does not start with the marker
Phase2ExtractText ==
  /\ call = Idle
  /\ UNCHANGED storeVars
  /\ \E extracted_text \in ExtractedTexts :
       LET usable == extracted_text # <<>> /\ ~startswith(extracted_text, Marker)
       IN  call' = [Call("phase_2_extract_text", usable) EXCEPT
                      !.text = extracted_text,
                      !.directory = IF usable
                                    THEN [path \in {OutputPath} |-> extracted_text]
                                    ELSE NoFiles]

\* EmbeddingsPipeline._chunk_files on the directory the extraction wrote to
ChunkSourceFiles ==
  /\ call.op \in {"extract_text_batch", "phase_2_extract_text"}
  /\ DOMAIN call.directory # {}
  /\ UNCHANGED storeVars
  /\ \E order \in Orders(call.directory) :
       call' = [call EXCEPT !.op = "chunk_files", !.ret = TRUE,
                            !.chunker = PipelineChunker,
                            !.chunks = ChunkFiles(call.directory, order, PipelineChunker)]

NextExtract ==
  \/ ExtractTextBatch
  \/ Phase2ExtractText
  \/ ChunkSourceFiles
  \/ Return

\* an extraction, then the pipeline's chunking of what it wrote
SpecExtract == Init /\ [][NextExtract]_vars

\* ------------------------------------------ two request threads that upsert
\* Two requests to /api/process_files run in two threads of the web server
\* and call upsert_embeddings on the one store of the process.  The code
\* takes no lock; a thread can be switched out between any two statements.
\* call.writers[t] is the position of thread t in upsert_embeddings and its
\* batch; call.store_at_start remembers the store as the two calls found it.
Writers == {1, 2}

\* the batches of the two requests: one embedding each, of one model
WriterBatches ==
  { b \in [Writers -> EmbeddingResults] :
      /\ b[1].chunk_id # b[2].chunk_id
      /\ b[1].embedding_dim = b[2].embedding_dim }

\* the instance and its two files
TheStore ==
  [ index |-> index, metadata |-> metadata, dimension |-> dimension,
    is_trained |-> is_trained, index_file |-> index_file,
    metadata_file |-> metadata_file ]

\* upsert_embeddings of a non-empty batch from start to end, alone
SerialUpsert(store, embeddings) ==
  LET created == ~store.is_trained
      idx0 == IF created THEN IndexFlatIP(embeddings[1].embedding_dim) ELSE store.index
      done == Upsert(idx0, store.metadata,
                     [index_file |-> store.index_file,
                      metadata_file |-> store.metadata_file],
                     embeddings, FALSE)
  IN  [ index |-> done.index, metadata |-> done.metadata,
        dimension |-> IF created THEN embeddings[1].embedding_dim ELSE store.dimension,
        is_trained |-> TRUE,
        index_file |-> done.files.index_file,
        metadata_file |-> done.files.metadata_file ]

\* both requests have arrived
StartWriters ==
  /\ call = Idle
  /\ ntotal(index) + Cardinality(Writers) <= MaxVectors
  /\ UNCHANGED storeVars
  /\ \E b \in WriterBatches :
       call' = [Call("concurrent_upserts", FALSE) EXCEPT
                  !.writers = [t \in Writers |-> [pc |-> "check", batch |-> <<b[t]>>]],
                  !.store_at_start = TheStore]

At(t, pc) == call.op = "concurrent_upserts" /\ call.writers[t].pc = pc

Goto(t, pc) == call' = [call EXCEPT !.writers[t].pc = pc]

\* line 130: if not self.is_trained
WriterCheck(t) ==
  /\ At(t, "check")
  /\ UNCHANGED storeVars
  /\ Goto(t, IF is_trained THEN "metadata" ELSE "create")

\* line 133: self.create_index(dimension=embeddings[0].embedding_dim)
WriterCreate(t) ==
  /\ At(t, "create")
  /\ dimension' = call.writers[t].batch[1].embedding_dim
  /\ index' = IndexFlatIP(call.writers[t].batch[1].embedding_dim)
  /\ is_trained' = TRUE
  /\ UNCHANGED <<metadata, index_file, metadata_file>>
  /\ Goto(t, "metadata")

\* lines 137-148: the metadata of the batch is stored
WriterMetadata(t) ==
  /\ At(t, "metadata")
  /\ metadata' = StoreMetadata(metadata, call.writers[t].batch)
  /\ UNCHANGED <<index, dimension, is_trained, index_file, metadata_file>>
  /\ Goto(t, "add")

\* lines 151-154: vstack and index.add; an exception ends the call (line 164)
WriterAdd(t) ==
  /\ At(t, "add")
  /\ UNCHANGED <<metadata, dimension, is_trained, index_file, metadata_file>>
  /\ IF AddRaises(index, call.writers[t].batch)
     THEN UNCHANGED index /\ Goto(t, "failed")
     ELSE index' = IndexAdd(index, call.writers[t].batch) /\ Goto(t, "save")

\* line 157: _save_index writes the index and the metadata as they are now
WriterSave(t) ==
  /\ At(t, "save")
  /\ UNCHANGED <<index, metadata, dimension, is_trained>>
  /\ LET saved == save_index(index, metadata,
                             [index_file |-> index_file, metadata_file |-> metadata_file])
     IN  /\ index_file' = saved.index_file
         /\ metadata_file' = saved.metadata_file
  /\ Goto(t, "done")

\* both calls have returned
WritersDone ==
  /\ call.op = "concurrent_upserts"
  /\ \A t \in Writers : call.writers[t].pc \in {"done", "failed"}

WritersReturn ==
  /\ WritersDone
  /\ UNCHANGED storeVars
  /\ call' = Idle

\* create_index or delete_index has returned
AdminReturn ==
  /\ call.op \in {"create_index", "delete_index"}
  /\ UNCHANGED storeVars
  /\ call' = Idle

NextWriters ==
  \/ StartWriters
  \/ \E t \in Writers : WriterCheck(t)
  \/ \E t \in Writers : WriterCreate(t)
  \/ \E t \in Writers : WriterMetadata(t)
  \/ \E t \in Writers : WriterAdd(t)
  \/ \E t \in Writers : WriterSave(t)
  \/ WritersReturn
  \/ \E dim \in Dims : create_index(dim)
  \/ delete_index
  \/ AdminReturn

\* pairs of concurrent upserts on a store that is created and deleted
SpecWriters == Init /\ [][NextWriters]_vars

\* ------------------------------------------------------------- properties
\* get_stats of the instance as it is now
CurrentStats == Stats(index, metadata, dimension, is_trained)

\* the row at position p is the only best match of q
UniqueBest(idx, q, p) ==
  /\ idx.vecs[p] = q
  /\ \A p2 \in 1..ntotal(idx) :
       p2 # p => InnerProduct(q, idx.vecs[p2]) < InnerProduct(q, q)

\* the metadata holds a record whose content is the text embedded as q
Stored(md, q) == \E i \in 1..Len(md) : md[i].meta.content = ContentOf(q)

\* C1: a search with the exact vector of a currently stored record that is the
\* unique best match returns that record first: the first result carries the
\* content that was upserted with that vector (the text whose embedding it is).
C1_RoundTripFirst ==
  ( /\ call.op = "search"
    /\ is_trained /\ index.present
    /\ Stored(metadata, call.qvec)
    /\ \E p \in 1..ntotal(index) : UniqueBest(index, call.qvec, p) )
  => /\ Len(call.results) >= 1
     /\ call.results[1].content = ContentOf(call.qvec)

\* some record of the batch has a vector whose length is not the index's
DimensionMismatch(idx, embeddings) ==
  \E i \in 1..Len(embeddings) : Len(embeddings[i].embedding) # idx.d

\* C2: upsert_embeddings on an existing index with a batch holding a record of
\* another dimension returns False and changes neither the stored vectors, nor
\* the chunk-metadata mapping, nor the persisted files.
C2_MismatchRejectedWhole ==
  [][ ( /\ call'.op = "upsert_embeddings"
        /\ is_trained /\ index.present
        /\ DimensionMismatch(index, call'.batch) )
      => ( /\ call'.ret = FALSE
           /\ index' = index
           /\ metadata' = metadata
           /\ index_file' = index_file
           /\ metadata_file' = metadata_file ) ]_vars

\* C3: create_index on an existing index of another dimension does not return
\* success and leaves the index's dimension and stored vectors as they were.
C3_CreateMismatchFails ==
  [][ ( /\ call'.op = "create_index"
        /\ is_trained /\ index.present
        /\ call'.dim # index.d )
      => ( /\ call'.ret = FALSE
           /\ index' = index
           /\ dimension' = dimension ) ]_vars

\* C4: across create_index, upsert_embeddings, search and get_stats calls the
\* total_vectors that get_stats reports never decreases.
C4_NeverShrinks ==
  [][ call'.op \in {"create_index", "upsert_embeddings", "search", "get_stats"}
      => Stats(index', metadata', dimension', is_trained').total_vectors
           >= CurrentStats.total_vectors ]_vars

\* C5: the index holds one vector per stored chunk_id: whenever get_stats
\* reports metadata_entries, it equals total_vectors.
C5_OneVectorPerChunk ==
  "metadata_entries" \in DOMAIN CurrentStats
  => CurrentStats.total_vectors = CurrentStats.metadata_entries

Reloaded == load_index(index_file, metadata_file)

Deleted ==
  /\ ~index_file.exists
  /\ ~metadata_file.exists
  /\ ~index.present
  /\ metadata = <<>>
  /\ ~is_trained

\* C7: delete_index returns True whether or not an index exists; afterwards
\* both files are absent, get_stats reports total_vectors 0 and every search
\* returns the empty list; a delete_index on an already deleted store changes
\* nothing.
C7_DeleteIdempotent ==
  [][ call'.op = "delete_index"
      => ( /\ call'.ret = TRUE
           /\ ~index_file'.exists
           /\ ~metadata_file'.exists
           /\ Stats(index', metadata', dimension', is_trained').total_vectors = 0
           /\ \A q \in Vectors, k \in 1..MaxTopK :
                SearchOutcomes(index', metadata', is_trained', q, k) = {<<>>}
           /\ (Deleted => UNCHANGED storeVars) ) ]_vars

\* C7 witness: delete_index has run on an instance that had an index
C7_Witness ==
  /\ call.op = "delete_index"
  /\ dimension # NoDim

\* never created, deleted, or freshly created and holding no vectors
EmptyIndex == ~is_trained \/ ~index.present \/ ntotal(index) = 0

\* C8: on an index that was never created, was deleted or holds no vectors,
\* the vector store's search returns the empty list, and ClaimsSearchAPI.search
\* answers with no results and total_results = 0, with no error note for a
\* supported search type.
C8_EmptyIndexSearch ==
  EmptyIndex =>
    /\ call.op = "search" => call.results = <<>>
    /\ call.op = "api_search" =>
         /\ call.results = <<>>
         /\ call.total_results = 0
         /\ call.search_type \in {"vector", "keyword", "hybrid"} => ~call.error

\* C8 witness: a vector search through the API on a freshly created index
\* that holds no vectors while the metadata of an earlier upsert is still there
C8_Witness ==
  /\ call.op = "api_search"
  /\ call.search_type = "vector"
  /\ is_trained /\ index.present /\ ntotal(index) = 0
  /\ metadata # <<>>

NonIncreasing(results) ==
  \A i, j \in 1..Len(results) : i < j => results[i].score >= results[j].score

\* C10: the results of ClaimsSearchAPI.search are non-increasing in score for
\* every search type, store state and query, after the min_score filter, the
\* metadata filters and the top_k truncation.
C10_ScoreOrdering ==
  call.op = "api_search" => NonIncreasing(call.results)

\* C10 witness: a filtered hybrid search returned two results of different
\* score
C10_Witness ==
  /\ call.op = "api_search"
  /\ call.search_type = "hybrid"
  /\ call.filters # {}
  /\ Len(call.results) = 2
  /\ call.results[1].score > call.results[2].score

\* C11: for every query with top_k >= 1 and every store state, the number of
\* results of the vector store's search and of ClaimsSearchAPI.search is at
\* most top_k and at most the total_vectors that get_stats reports.
C11_TopKBound ==
  (call.op \in {"search", "api_search"} /\ call.top_k >= 1)
  => /\ Len(call.results) <= call.top_k
     /\ Len(call.results) <= CurrentStats.total_vectors

\* C11 witness: top_k = 1 cut the answer of an index of two vectors to one result
C11_Witness ==
  /\ call.op = "api_search"
  /\ call.top_k = 1
  /\ Len(call.results) = 1
  /\ CurrentStats.total_vectors = 2

\* C12: every call of ClaimsSearchAPI.search comes back with a SearchResponse
\* (results and total_results = len(results)), also for an unsupported
\* search_type and when the embedding provider or the vector store fails.
C12_NeverRaises ==
  call.op = "api_search"
  => /\ call.ret = TRUE
     /\ call.total_results = Len(call.results)

\* C12 witness: the response to a query of an unsupported search_type
C12_Witness ==
  /\ call.op = "api_search"
  /\ call.search_type \notin {"vector", "keyword", "hybrid"}
  /\ call.error

\* an exception occurs on the selected search path: the search type is
\* unsupported, the embedding provider fails, or the vector store's search
\* raises on a query of another dimension than the index's
PathFails(search_type, query_text, embed_ok) ==
  \/ search_type \notin {"vector", "keyword", "hybrid"}
  \/ /\ search_type \in {"vector", "hybrid"}
     /\ \/ ~embed_ok
        \/ is_trained /\ index.present /\ Len(Embed(query_text)) # index.d

\* C13: whenever an exception occurs on the selected search path, the response
\* has empty results, total_results = 0 and an error note in its metadata.
C13_FailureHasErrorNote ==
  [][ \A t \in SearchTypes, qi \in QueryInputs, k \in 1..MaxTopK :
        (ClaimsSearchAPI_search(t, qi[1], qi[2], k) /\ PathFails(t, qi[1], qi[2]))
        => ( /\ call'.results = <<>>
             /\ call'.total_results = 0
             /\ call'.error ) ]_vars

IdsOf(rs) == { rs[i].chunk_id : i \in 1..Len(rs) }

\* the score of chunk id in a result list, 0 when the list does not hold it
ScoreIn(rs, id) ==
  IF id \in IdsOf(rs) THEN (CHOOSE r \in { rs[i] : i \in 1..Len(rs) } : r.chunk_id = id).score
  ELSE 0

RankIn(rs, id) == CHOOSE i \in 1..Len(rs) : rs[i].chunk_id = id

\* C14: the merge of vector results V and keyword results K holds every
\* chunk_id of V and K exactly once, with score 0.7*v + 0.3*k (0 for a list
\* that lacks the chunk_id), sorted by descending combined score; chunks of
\* equal combined score keep their vector-search rank order.
C14_HybridMerge ==
  call.op = "combine_search_results" =>
    LET V == call.vector_results
        K == call.keyword_results
        R == call.results
    IN  /\ IdsOf(R) = IdsOf(V) \cup IdsOf(K)
        /\ Len(R) = Cardinality(IdsOf(V) \cup IdsOf(K))
        /\ \A i \in 1..Len(R) :
             R[i].score = (7 * ScoreIn(V, R[i].chunk_id) + 3 * ScoreIn(K, R[i].chunk_id)) \div 10
        /\ NonIncreasing(R)
        /\ \A i, j \in 1..Len(R) :
             ( /\ i < j
               /\ R[i].score = R[j].score
               /\ R[i].chunk_id \in IdsOf(V)
               /\ R[j].chunk_id \in IdsOf(V) )
             => RankIn(V, R[i].chunk_id) < RankIn(V, R[j].chunk_id)

\* C14 witness: two vector results end with the same combined score because
\* of a keyword score, the one of lower vector score first
C14_Witness ==
  /\ call.op = "combine_search_results"
  /\ Len(call.vector_results) = 2
  /\ call.keyword_results # <<>>
  /\ Len(call.results) = 2
  /\ call.results[1].score = call.results[2].score
  /\ call.vector_results[1].score < call.vector_results[2].score

\* filter item f accepts the metadata: the key is absent, or the value is the
\* filter's value, or a member of the filter's list
Accepts(f, meta) ==
  \/ f.key \notin DOMAIN meta
  \/ ~f.isList /\ meta[f.key] = f.val
  \/ f.isList /\ meta[f.key] \in f.vals

\* C15: every returned result is accepted by every filter of the query, and a
\* result is never dropped because its metadata lacks a filter key: a raw
\* result of sufficient score that every filter accepts is returned unless
\* top_k results were already returned.
C15_FilterCorrectness ==
  call.op = "post_process" =>
    /\ \A f \in call.filters, i \in 1..Len(call.results) :
         Accepts(f, call.results[i].metadata)
    /\ \A j \in 1..Len(call.raw) :
         ( /\ call.raw[j].score >= call.min_score
           /\ \A f \in call.filters : Accepts(f, call.raw[j].metadata)
           /\ Len(call.results) < call.top_k )
         => \E i \in 1..Len(call.results) : call.results[i] = call.raw[j]

\* C15 witness: a claim_type filter kept a result without claim_type and
\* dropped one of another claim_type
C15_Witness ==
  /\ call.op = "post_process"
  /\ call.filters = {Scalar("claim_type", "property")}
  /\ \E i \in 1..Len(call.results) : "claim_type" \notin DOMAIN call.results[i].metadata
  /\ \E j \in 1..Len(call.raw) :
       /\ "claim_type" \in DOMAIN call.raw[j].metadata
       /\ call.raw[j].metadata["claim_type"] # "property"
       /\ call.raw[j].score >= call.min_score

\* the positions of the raw results that pass min_score and the filters
KeptPositions(raw, min_score, filters) ==
  { j \in 1..Len(raw) :
      /\ raw[j].score >= min_score
      /\ \A f \in filters : Accepts(f, raw[j].metadata) }

\* C16: the returned results are the first top_k raw results, in raw order,
\* among those that pass min_score and the filters (truncation comes after
\* filtering), and no returned result has a score below min_score.
C16_PostProcessingOrder ==
  call.op = "post_process" =>
    LET kept == KeptPositions(call.raw, call.min_score, call.filters)
        Nth(i) == CHOOSE j \in kept : Cardinality({ j2 \in kept : j2 <= j }) = i
    IN  /\ Len(call.results) = Min(call.top_k, Cardinality(kept))
        /\ \A i \in 1..Len(call.results) : call.results[i] = call.raw[Nth(i)]
        /\ \A i \in 1..Len(call.results) : call.results[i].score >= call.min_score

\* C16 witness: with top_k = 1 the first raw result fell to min_score and the
\* second one was returned
C16_Witness ==
  /\ call.op = "post_process"
  /\ call.top_k = 1
  /\ Len(call.raw) = 2
  /\ call.raw[1].score < call.min_score
  /\ call.results = <<call.raw[2]>>

\* C17: for an input text of at least min_chunk_size characters the ranges
\* [start_char, end_char) of the emitted chunks cover the cleaned text: the
\* first chunk starts at 0, every next chunk starts at or before the end of
\* the one before it, and the last chunk ends at len(cleaned_text).
C17_ChunksCoverText ==
  ( /\ call.op = "chunk_text"
    /\ Len(strip(call.text)) >= call.chunker.min_chunk_size )
  => LET chunks == call.chunks
     IN  /\ chunks # <<>>
         /\ chunks[1].start_char = 0
         /\ \A i \in 1..(Len(chunks) - 1) : chunks[i + 1].start_char <= chunks[i].end_char
         /\ chunks[Len(chunks)].end_char = Len(clean_text(call.text))

\* the window is one that _create_chunks skipped
Skipped(w, chunks) == \A i \in 1..Len(chunks) : chunks[i].start_char # w.start_pos

\* C18: the chunks of one source file carry chunk_index 0, 1, 2, ... without
\* gaps, equal to their position in the returned list, also when windows were
\* skipped between emitted chunks.
C18_ChunkIndexIsPosition ==
  call.op = "chunk_text"
  => \A i \in 1..Len(call.chunks) : call.chunks[i].chunk_index = i - 1

\* C18 witness: a window was skipped between the first and the second chunk
C18_Witness ==
  /\ call.op = "chunk_text"
  /\ Len(call.chunks) >= 2
  /\ \E k \in 1..Len(call.windows) :
       /\ Skipped(call.windows[k], call.chunks)
       /\ call.chunks[1].start_char < call.windows[k].start_pos
       /\ call.windows[k].start_pos < call.chunks[2].start_char

\* C19: among all chunks of one chunk_directory run over the text files of a
\* directory tree, no two chunks have the same chunk_id.
C19_ChunkIdUnique ==
  call.op = "chunk_directory"
  => \A i, j \in 1..Len(call.chunks) :
       i # j => call.chunks[i].chunk_id # call.chunks[j].chunk_id

\* C20: every emitted chunk but possibly the last has at least min_chunk_size
\* characters of content, the last one may be shorter only when it is the
\* tail of the text, and a window whose trimmed content is shorter than
\* min_chunk_size is not emitted.
C20_MinimumChunkSize ==
  call.op = "chunk_text"
  => LET chunks == call.chunks
         cleaned == clean_text(call.text)
         min_size == call.chunker.min_chunk_size
     IN  /\ \A i \in 1..Len(chunks) :
              \/ Len(chunks[i].content) >= min_size
              \/ i = Len(chunks) /\ chunks[i].end_char = Len(cleaned)
         /\ \A k \in 1..Len(call.windows) :
              Len(strip(SubSeq(cleaned, call.windows[k].start_pos + 1,
                               call.windows[k].end_pos))) < min_size
              => Skipped(call.windows[k], chunks)

\* C20 witness: a window in the middle of the text was too small and skipped,
\* and a chunk was emitted after it
C20_Witness ==
  /\ call.op = "chunk_text"
  /\ \E k \in 1..Len(call.windows) :
       /\ Skipped(call.windows[k], call.chunks)
       /\ call.windows[k].end_pos < Len(clean_text(call.text))
       /\ \E i \in 1..Len(call.chunks) :
            call.chunks[i].start_char >= call.windows[k].end_pos

\* C21: every emitted chunk has 0 <= start_char < end_char <= len(cleaned_text)
\* and end_char - start_char <= chunk_size.
C21_ChunkOffsets ==
  call.op = "chunk_text"
  => \A i \in 1..Len(call.chunks) :
       LET c == call.chunks[i]
       IN  /\ 0 <= c.start_char
           /\ c.start_char < c.end_char
           /\ c.end_char <= Len(clean_text(call.text))
           /\ c.end_char - c.start_char <= call.chunker.chunk_size

\* C21 witness: a chunk of full chunk_size is followed by another chunk, with
\* a break point beyond the first window
C21_Witness ==
  /\ call.op = "chunk_text"
  /\ Len(call.chunks) >= 2
  /\ call.chunks[1].end_char - call.chunks[1].start_char = call.chunker.chunk_size
  /\ \E bp \in find_break_points(clean_text(call.text)) :
       call.chunks[1].end_char < bp /\ bp < Len(clean_text(call.text))

\* C26: chunk_text terminates for every text and every configuration, also
\* with chunk_overlap >= chunk_size: every pass through the loop moves the
\* window start strictly forward, and a call that entered the loop returns.
C26_ChunkingTerminates ==
  /\ [][LoopIteration => call'.start_pos > call.start_pos]_vars
  /\ ((call.op = "create_chunks" /\ ~call.ret) ~> (call.op = "create_chunks" /\ call.ret))

\* C26 witness: with chunk_overlap >= chunk_size the loop has emitted three
\* chunks and returned
C26_Witness ==
  /\ call.op = "create_chunks" /\ call.ret
  /\ call.chunker.chunk_overlap >= call.chunker.chunk_size
  /\ Len(call.chunks) >= 3

\* the position in the cleaned text of the raw text's 0-based position i
CleanedPos(text, i) == Len(clean_text(SubSeq(text, 1, i)))

\* C27: the position of a blank-line paragraph boundary of the input text is,
\* in the cleaned text, among the candidate break points chunk_text snaps to
\* (the position of the boundary or of the line after it); 0 and end-of-text
\* always are.
C27_BreakPointCandidates ==
  ( /\ call.op = "chunk_text"
    /\ Len(strip(call.text)) >= call.chunker.min_chunk_size )
  => LET cleaned == clean_text(call.text)
         break_points == find_break_points(cleaned)
     IN  /\ 0 \in break_points
         /\ Len(cleaned) \in break_points
         /\ \A i \in ParagraphBreaks(call.text) :
              ( /\ strip(SubSeq(call.text, 1, i)) # <<>>
                /\ strip(SubSeq(call.text, i + 1, Len(call.text))) # <<>> )
              => \/ CleanedPos(call.text, i) \in break_points
                 \/ CleanedPos(call.text, i) + 1 \in break_points

\* C28: the end of the window at start, with raw_end = min(start + chunk_size,
\* len(text)), is the largest candidate break point b > start with
\* max(start, raw_end - chunk_size // 5) <= b <= raw_end when there is one,
\* and raw_end otherwise.
C28_BoundarySnapping ==
  call.op = "chunk_text"
  => LET cleaned == clean_text(call.text)
         chunk_size == call.chunker.chunk_size
     IN  \A k \in 1..Len(call.windows) :
           LET start == call.windows[k].start_pos
               raw_end == Min(start + chunk_size, Len(cleaned))
               snaps == { b \in find_break_points(cleaned) :
                            /\ Max(start, raw_end - (chunk_size \div 5)) <= b
                            /\ b <= raw_end
                            /\ b > start }
           IN  IF snaps # {}
               THEN /\ call.windows[k].end_pos \in snaps
                    /\ \A b \in snaps : b <= call.windows[k].end_pos
               ELSE call.windows[k].end_pos = raw_end

\* C28 witness: a window that ends at a sentence end before its raw end
C28_Witness ==
  /\ call.op = "chunk_text"
  /\ \E k \in 1..Len(call.windows) :
       /\ call.windows[k].end_pos
            < Min(call.windows[k].start_pos + call.chunker.chunk_size,
                  Len(clean_text(call.text)))
       /\ call.windows[k].end_pos \in SentenceEnds(clean_text(call.text))

\* C29: the cleaned text has no two consecutive whitespace characters, no
\* control character and no whitespace at its ends, and cleaning it again
\* returns it unchanged.
C29_Normalized ==
  call.op = "clean_text"
  => LET t == call.cleaned
     IN  /\ \A i \in 1..(Len(t) - 1) : ~(IsSpace(t[i]) /\ IsSpace(t[i + 1]))
         /\ \A i \in 1..Len(t) : ~IsControl(t[i])
         /\ t # <<>> => ~IsSpace(t[1]) /\ ~IsSpace(t[Len(t)])
         /\ clean_text(t) = t

\* C22: run_full_pipeline always returns its summary and never raises; the
\* status is 'success' or 'failed'; steps_completed is a prefix of the five
\* steps in order; nothing runs after a failed stage; the status is 'success'
\* exactly when all five steps completed, and a failed run has an error.
C22_PipelineSummary ==
  /\ [](call.op = "run_full_pipeline"
         => /\ Len(call.steps_completed) <= Len(PipelineSteps)
            /\ call.steps_completed
                 = SubSeq(PipelineSteps, 1, Len(call.steps_completed))
            /\ call.ret
                 => /\ call.status \in {"success", "failed"}
                    /\ call.status = "success" <=> call.steps_completed = PipelineSteps
                    /\ call.status = "failed" => call.errors # <<>>)
  /\ [][(call.op = "run_full_pipeline" /\ call.status = "failed")
          => (call' = Idle /\ UNCHANGED storeVars)]_vars
  /\ ((call.op = "run_full_pipeline" /\ ~call.ret)
        ~> (call.op = "run_full_pipeline" /\ call.ret))

\* C22 witness: a run that failed in the storage step has returned
C22_Witness ==
  /\ call.op = "run_full_pipeline" /\ call.ret
  /\ call.status = "failed"
  /\ call.steps_completed = SubSeq(PipelineSteps, 1, 3)

\* C23: when a run fails in the embedding, the index-setup or the storage
\* step, the vector file and the metadata file are as the run found them.
C23_FailedRunKeepsFiles ==
  ( /\ call.op = "run_full_pipeline"
    /\ call.status = "failed"
    /\ Len(call.steps_completed) \in {1, 2, 3} )
  => <<index_file, metadata_file>> = call.files_at_start

\* C23 witness: the storage step failed on a store whose files exist and hold
\* other vectors than the ones of this run
C23_Witness ==
  /\ call.op = "run_full_pipeline"
  /\ call.status = "failed"
  /\ call.steps_completed = SubSeq(PipelineSteps, 1, 3)
  /\ index_file.exists /\ metadata_file.exists
  /\ index_file.data.d # call.batch[1].embedding_dim

\* C24: a text of the extraction that begins with the error marker is not
\* written out as a source text file and no chunk is made of it.
C24_ErrorTextNotUsed ==
  ( /\ call.op \in {"extract_text_batch", "phase_2_extract_text", "chunk_files"}
    /\ startswith(call.text, Marker) )
  => /\ DOMAIN call.directory = {}
     /\ call.chunks = <<>>

\* C25: two concurrent upsert_embeddings calls are serialized: when both have
\* returned, the store is as after running the two calls one after the other
\* in some order, and every position of the index holds the vector of the
\* chunk_id the metadata attributes to it.
C25_WritersSerialized ==
  WritersDone
  => /\ \E first \in Writers :
          \E second \in Writers \ {first} :
            TheStore = SerialUpsert(SerialUpsert(call.store_at_start,
                                                 call.writers[first].batch),
                                    call.writers[second].batch)
     /\ call.store_at_start.metadata = <<>>
          => \A i \in 1..ntotal(index) :
               /\ i <= Len(metadata)
               /\ \E t \in Writers :
                    /\ call.writers[t].batch[1].chunk_id = metadata[i].chunk_id
                    /\ call.writers[t].batch[1].embedding = index.vecs[i]

\* C30: readers do not change the store: a search of the store, a search
\* through the API (vector, keyword or hybrid, with hybrid's rewriting of the
\* scores) and get_stats leave the index, its dimension, the metadata and the
\* two files as they were; the vectors of the index are changed only by
\* upsert_embeddings, delete_index and the load of a new instance.
C30_ReadersDoNotMutate ==
  [][ /\ call'.op \in {"search", "api_search", "get_stats"} => UNCHANGED storeVars
      /\ index'.vecs # index.vecs
           => call'.op \in {"upsert_embeddings", "delete_index", "reopen"} ]_vars
====
